---- MODULE Spec2Model ----
(***************************************************************************)
(* A model of src/entrypoint.py: the pull request review action.           *)
(*                                                                         *)
(* A Python str is a sequence of tokens.  A token is one character, or a   *)
(* literal chunk of a format string that no operation of the program looks *)
(* inside.  Concatenation is \o, str.endswith compares the last tokens.    *)
(* An optional value (None or a value v) is the sequence <<>> or <<v>>.    *)
(***************************************************************************)
EXTENDS Integers, Sequences, FiniteSets, TLC

VARIABLES
    env,              \* os.environ: variable name -> optional str
    opts,             \* the click options main is called with
    tree,             \* the files under the working directory '.'
    scanOrder,        \* the order in which the file system lists a directory
    exclude_dirs,     \* read_project_files' exclude_dirs argument
    caller,           \* who called read_project_files: "main" or "direct"
    pc,               \* position in main (or in read_project_files)
    error,            \* the uncaught exception the run ended with, "" if none
    walk,             \* os.walk's pending directories, next one first
    project_content,  \* read_project_files' list of sections
    context,          \* optional: read_project_files' return value
    configured,       \* optional: the api key handed to genai.configure
    genRequest,       \* optional: the generate_content call issued
    review,           \* optional: what generate_content returned
    published,        \* optional: the arguments the publisher was called with
    post,             \* optional: the requests.post call issued
    response,         \* optional: the HTTP status requests.post returned
    opened,           \* the files open() was called on
    nGenerate,        \* number of generate_content calls issued
    nPost,            \* number of requests.post calls issued
    prev              \* optional: what an earlier run of the same command issued

vars == <<env, opts, tree, scanOrder, exclude_dirs, caller, pc, error, walk,
          project_content, context, configured, genRequest, review, published,
          post, response, opened, nGenerate, nPost, prev>>

(***************************************************************************)
(* Bounds of the model.                                                    *)
(***************************************************************************)
\* Deepest nesting of a directory under '.'.
MaxDepth == 2
\* Most files in a working tree.
MaxFiles == 2

(***************************************************************************)
(* Strings.                                                                *)
(***************************************************************************)
None == <<>>
Some(v) == <<v>>

\* str.endswith(suffix)
EndsWith(s, suffix) ==
    /\ Len(suffix) <= Len(s)
    /\ SubSeq(s, Len(s) - Len(suffix) + 1, Len(s)) = suffix

\* sep.join(parts)
RECURSIVE Join(_, _)
Join(sep, parts) ==
    IF parts = <<>> THEN <<>>
    ELSE IF Len(parts) = 1 THEN parts[1]
    ELSE parts[1] \o sep \o Join(sep, Tail(parts))

\* os.path.join(a, b), for a non-empty a that does not end with a separator
PathJoin(a, b) == a \o <<"/">> \o b

(***************************************************************************)
(* The working tree.  A file is [dir |-> the directory names from '.' down *)
(* to it, name |-> its name]; a tree is a set of files (a directory exists *)
(* when a file lies under it).                                             *)
(***************************************************************************)
D_github == <<".", "g", "i", "t", "h", "u", "b">>
D_idea   == <<".", "i", "d", "e", "a">>
D_src    == <<"s", "r", "c">>
F_a_py    == <<"a", ".", "p", "y">>
F_b_bin   == <<"b", ".", "b", "i", "n">>
F_bad_txt == <<"b", "a", "d", ".", "t", "x", "t">>
F_x_pyc   == <<"x", ".", "p", "y", "c">>

DirNames  == { D_github, D_src }
FileNames == { F_a_py, F_b_bin, F_bad_txt, F_x_pyc }

\* The names in the order a forward directory listing gives them.
NameOrder == << D_github, D_src, F_a_py, F_b_bin, F_bad_txt, F_x_pyc >>

DirPaths == UNION { [1..k -> DirNames] : k \in 0..MaxDepth }
FileUniverse == { [dir |-> d, name |-> n] : d \in DirPaths, n \in FileNames }

RECURSIVE TreesUpTo(_)
TreesUpTo(k) ==
    IF k = 0 THEN { {} }
    ELSE LET smaller == TreesUpTo(k - 1)
         IN  smaller \cup { t \cup {f} : t \in smaller, f \in FileUniverse }
Trees == TreesUpTo(MaxFiles)

\* f.read() of a file opened in text mode: None when its bytes do not decode.
ReadText(f) ==
    IF f.name = F_a_py THEN Some(<<"print(1)">>)
    ELSE IF f.name = F_b_bin THEN Some(<<"secret">>)
    ELSE IF f.name = F_x_pyc THEN Some(<<"bytecode">>)
    ELSE None

\* What os.walk's scandir gives for a set of names.
RECURSIVE Reverse(_)
Reverse(s) == IF s = <<>> THEN <<>> ELSE Reverse(Tail(s)) \o <<Head(s)>>
Listing(names) ==
    SelectSeq(IF scanOrder = "fwd" THEN NameOrder ELSE Reverse(NameOrder),
              LAMBDA n : n \in names)

IsPrefix(p, q) == Len(p) <= Len(q) /\ SubSeq(q, 1, Len(p)) = p
FilesIn(d) == { f.name : f \in { g \in tree : g.dir = d } }
SubDirsIn(d) ==
    { f.dir[Len(d) + 1] : f \in { g \in tree : IsPrefix(d, g.dir) /\ Len(g.dir) > Len(d) } }

\* The root os.walk('.') reports for a directory: '.', './src', './src/src'.
RECURSIVE RootStr(_)
RootStr(d) ==
    IF d = <<>> THEN <<".">>
    ELSE PathJoin(RootStr(SubSeq(d, 1, Len(d) - 1)), d[Len(d)])

(***************************************************************************)
(* read_project_files                                                      *)
(***************************************************************************)
DefaultExcludeDirs == { D_github, D_idea }

AllowedExtensions ==
    { <<".", "p", "y">>, <<".", "y", "m", "l">>, <<".", "y", "a", "m", "l">>,
      <<".", "m", "d">>, <<".", "t", "x", "t">>, <<".", "j", "s", "o", "n">>,
      <<".", "k", "t">>, <<".", "h", "t", "m", "l">>, <<".", "j", "s">>,
      <<".", "t", "s">>, <<".", "c", "s", "s">>, <<".", "j", "a", "v", "a">>,
      <<".", "c">>, <<".", "c", "p", "p">>, <<".", "h">>,
      <<".", "h", "p", "p">>, <<".", "g", "o">>, <<".", "r", "s">>,
      <<".", "s", "w", "i", "f", "t">>, <<".", "s", "h">>, <<".", "r", "b">>,
      <<".", "p", "h", "p">>, <<".", "m", "d", "x">>, <<".", "r", "s">>,
      <<".", "s", "q", "l">>, <<".", "i", "n", "i">>, <<".", "c", "f", "g">>,
      <<".", "c", "o", "n", "f">>, <<".", "t", "o", "m", "l">>, <<".", "e", "n", "v">>,
      <<".", "c", "f", "g">>, <<".", "c", "o", "n", "f">>, <<".", "t", "o", "m", "l">>,
      <<".", "i", "n", "i">>, <<".", "t", "x", "t">>, <<".", "x", "m", "l">> }

\* file.endswith((...)) of line 148
HasAllowedExtension(name) == \E e \in AllowedExtensions : EndsWith(name, e)

\* Mutant: dirs = [...] rebinds the name and leaves os.walk's list as it was.
PruneDirs_Rebound(dirs) == dirs

\* dirs[:] = [d for d in dirs if d not in exclude_dirs]
PruneDirs(dirs) == SelectSeq(dirs, LAMBDA d : d \notin exclude_dirs)

\* The fence of three backquotes that wraps a file's content.
Fence == "<3 backquotes>"

\* f"File: {file_path}\n\n [fence]{content}[fence]\n\n"
Section(file_path, content) ==
    <<"File: ">> \o file_path \o <<"\n\n ", Fence>> \o content \o <<Fence, "\n\n">>

\* One iteration of the os.walk loop: the directory at the head of walk.
WalkDir ==
    /\ pc = "walk"
    /\ walk # <<>>
    /\ LET root    == Head(walk)
           dirs    == PruneDirs(Listing(SubDirsIn(root)))
           files   == SelectSeq(Listing(FilesIn(root)), HasAllowedExtension)
           file(i) == [dir |-> root, name |-> files[i]]
           bad     == { i \in 1..Len(files) : ReadText(file(i)) = None }
           last    == IF bad = {} THEN Len(files)
                      ELSE CHOOSE i \in bad : \A j \in bad : i <= j
           good    == IF bad = {} THEN Len(files) ELSE last - 1
       IN  /\ opened' = opened \cup { file(i) : i \in 1..last }
           /\ project_content' = project_content \o
                [i \in 1..good |->
                    Section(PathJoin(RootStr(root), files[i]), ReadText(file(i))[1])]
           /\ IF bad = {}
              THEN /\ walk' = [i \in 1..Len(dirs) |-> root \o <<dirs[i]>>] \o Tail(walk)
                   /\ UNCHANGED <<pc, error>>
              ELSE /\ pc' = "failed"
                   /\ error' = [type |-> "UnicodeDecodeError", msg |-> <<"cannot decode">>]
                   /\ UNCHANGED walk
    /\ UNCHANGED <<env, opts, tree, scanOrder, exclude_dirs, caller, context,
                   configured, genRequest, review, published, post, response,
                   nGenerate, nPost, prev>>

\* return '\n'.join(project_content)
ReadReturn ==
    /\ pc = "walk"
    /\ walk = <<>>
    /\ context' = Some(Join(<<"\n">>, project_content))
    /\ pc' = IF caller = "main" THEN "review" ELSE "returned"
    /\ UNCHANGED <<env, opts, tree, scanOrder, exclude_dirs, caller, error, walk,
                   project_content, configured, genRequest, review, published,
                   post, response, opened, nGenerate, nPost, prev>>

(***************************************************************************)
(* The process environment and the command line.                           *)
(***************************************************************************)
\* required_env_vars, in the order of the list
RequiredEnvVars ==
    << "GEMINI_API_KEY", "GITHUB_TOKEN", "GITHUB_REPOSITORY",
       "GITHUB_PULL_REQUEST_NUMBER", "GIT_COMMIT_HASH" >>
EnvVarNames == { RequiredEnvVars[i] : i \in 1..Len(RequiredEnvVars) }

\* os.getenv(name): None when the variable is unset
Getenv(name) == env[name]

\* The values a variable may have: unset, the empty string, or a text.
EnvValues(name) ==
    IF name = "GITHUB_PULL_REQUEST_NUMBER"
    THEN { None, Some(<<>>), Some(<<"1", "2">>), Some(<<"0", "0", "7">>),
           Some(<<"x", "1">>) }
    ELSE IF name = "GITHUB_REPOSITORY" THEN { None, Some(<<>>), Some(<<"o", "/", "r">>) }
    ELSE IF name = "GEMINI_API_KEY" THEN { None, Some(<<>>), Some(<<"key">>) }
    ELSE IF name = "GITHUB_TOKEN" THEN { None, Some(<<>>), Some(<<"tok">>) }
    ELSE { None, Some(<<>>), Some(<<"c0ffee">>) }
Environments == { e \in [EnvVarNames -> UNION { EnvValues(n) : n \in EnvVarNames }] :
                    \A n \in EnvVarNames : e[n] \in EnvValues(n) }

\* The names loguru's logger knows.
LoggerLevels == { "TRACE", "DEBUG", "INFO", "SUCCESS", "WARNING", "ERROR", "CRITICAL" }

\* The click defaults of lines 160-169 (--diff is required and has none).
DefaultOptions(diff) ==
    [ diff |-> diff, diff_chunk_size |-> 3500, model |-> "gemini-1.5-flash",
      extra_prompt |-> <<>>, temperature |-> "0.1", max_tokens |-> 8192,
      top_p |-> "1.0", frequency_penalty |-> "0.0", presence_penalty |-> "0.0",
      log_level |-> "INFO" ]

Diffs == { <<"diff --git a/a.py b/a.py">>, <<"-", "x", "\n", "+", "y">> }
ExtraPrompts == { <<>>, <<"Be", " ", "brief">> }
ChunkSizes == { 3500, 2 }
Penalties == { "0.0", "0.5" }

(***************************************************************************)
(* int(str) and str(int), for a str of digits.                             *)
(***************************************************************************)
Digits == << "0", "1", "2", "3", "4", "5", "6", "7", "8", "9" >>
IsDigit(c) == \E i \in 1..10 : Digits[i] = c
DigitValue(c) == (CHOOSE i \in 1..10 : Digits[i] = c) - 1

RECURSIVE DigitsValue(_)
DigitsValue(s) ==
    IF s = <<>> THEN 0
    ELSE 10 * DigitsValue(SubSeq(s, 1, Len(s) - 1)) + DigitValue(s[Len(s)])

\* Mutant: a str that is no number counts as 0.
ParseInt_Lenient(s) ==
    IF s # <<>> /\ \A i \in 1..Len(s) : IsDigit(s[i])
    THEN Some(DigitsValue(s))
    ELSE Some(0)

\* int(s): None stands for the ValueError of a str that is no number.
ParseInt(s) ==
    IF s # <<>> /\ \A i \in 1..Len(s) : IsDigit(s[i])
    THEN Some(DigitsValue(s))
    ELSE None

\* str(n) as the f-string of line 93 formats it, n >= 0
RECURSIVE IntToStr(_)
IntToStr(n) ==
    IF n < 10 THEN <<Digits[n + 1]>>
    ELSE IntToStr(n \div 10) \o <<Digits[(n % 10) + 1]>>

(***************************************************************************)
(* main, up to the project read.                                           *)
(***************************************************************************)
NoError == [type |-> "", msg |-> <<>>]
Raise(type, msg) == [type |-> type, msg |-> msg]

\* logger.level(log_level): a lookup, which raises for a name it does not know
SetLogLevel ==
    /\ pc = "start"
    /\ IF opts.log_level \in LoggerLevels
       THEN pc' = "check_env" /\ UNCHANGED error
       ELSE pc' = "failed" /\ error' = Raise("ValueError", <<"Level does not exist">>)
    /\ UNCHANGED <<env, opts, tree, scanOrder, exclude_dirs, caller, walk,
                   project_content, context, configured, genRequest, review,
                   published, post, response, opened, nGenerate, nPost, prev>>

\* Mutant: the loop stops one variable short of the end of the list.
MissingEnvVars_SkipLast ==
    { i \in 1..(Len(RequiredEnvVars) - 1) : Getenv(RequiredEnvVars[i]) = None }

\* The variables check_required_env_vars finds missing, as indexes of the list.
MissingEnvVars == { i \in 1..Len(RequiredEnvVars) : Getenv(RequiredEnvVars[i]) = None }

\* Mutant: every variable is checked and the last one missing is reported.
FirstMissing_Last == CHOOSE i \in MissingEnvVars : \A j \in MissingEnvVars : i >= j

\* The variable the loop of lines 32-34 raises for: it stops at the first one.
FirstMissing == CHOOSE i \in MissingEnvVars : \A j \in MissingEnvVars : i <= j

\* check_required_env_vars()
CheckEnv ==
    /\ pc = "check_env"
    /\ IF MissingEnvVars = {}
       THEN pc' = "configure" /\ UNCHANGED error
       ELSE /\ pc' = "failed"
            /\ error' = Raise("ValueError", <<RequiredEnvVars[FirstMissing], " is not set">>)
    /\ UNCHANGED <<env, opts, tree, scanOrder, exclude_dirs, caller, walk,
                   project_content, context, configured, genRequest, review,
                   published, post, response, opened, nGenerate, nPost, prev>>

\* genai.configure(api_key=os.getenv("GEMINI_API_KEY")), then the call of
\* read_project_files(), whose os.walk starts at '.'
Configure ==
    /\ pc = "configure"
    /\ configured' = Some(Getenv("GEMINI_API_KEY")[1])
    /\ walk' = << <<>> >>
    /\ pc' = "walk"
    /\ UNCHANGED <<env, opts, tree, scanOrder, exclude_dirs, caller, error,
                   project_content, context, genRequest, review, published,
                   post, response, opened, nGenerate, nPost, prev>>

(***************************************************************************)
(* get_review_prompt and get_review                                        *)
(***************************************************************************)
\* The five numbered lines of the template (lines 44-48).
ReviewCriteria ==
    << "    1. Overall pull request structure and code quality\n",
       "    2. Potential security vulnerabilities in the changed code, if any\n",
       "    3. Changes introduced in the pull request\n",
       "    4. Improvements or issues in the pull request, if any\n",
       "    5. Suggestions for better code organization, performance, or security, if any\n" >>

\* The template's text before the criteria (lines 39-43), between the criteria
\* and the extra prompt (lines 49-57) and after it (lines 57-60).
PromptHead    == "\n    You are reviewing pull request. [...] Consider the following:\n\n"
PromptProvide == "\n    Provide a comprehensive review that includes: [...]\n\n    "
PromptTail    == "\n\n    Please begin your review now.\n    "

\* get_review_prompt(extra_prompt)
get_review_prompt(extra_prompt) ==
    <<PromptHead>> \o ReviewCriteria \o <<PromptProvide>> \o extra_prompt \o <<PromptTail>>

HarmCategories ==
    { "HARM_CATEGORY_HARASSMENT", "HARM_CATEGORY_HATE_SPEECH",
      "HARM_CATEGORY_SEXUALLY_EXPLICIT", "HARM_CATEGORY_DANGEROUS_CONTENT" }

\* Mutant: the two penalties are passed on to the model.
GenerationConfig_WithPenalties(temperature, max_tokens, top_p, frequency_penalty, presence_penalty) ==
    [ temperature |-> temperature, top_p |-> top_p, top_k |-> 40,
      max_output_tokens |-> max_tokens, frequency_penalty |-> frequency_penalty,
      presence_penalty |-> presence_penalty ]

\* generation_config of lines 119-124
GenerationConfig(temperature, max_tokens, top_p, frequency_penalty, presence_penalty) ==
    [ temperature |-> temperature, top_p |-> top_p, top_k |-> 40,
      max_output_tokens |-> max_tokens ]

\* safety_settings of lines 126-131
SafetySettings == [c \in HarmCategories |-> "BLOCK_NONE"]

\* chunk_string(input_string, chunk_size), for chunk_size > 0.  main never calls it.
RECURSIVE chunk_string(_, _)
chunk_string(input_string, chunk_size) ==
    IF input_string = <<>> THEN <<>>
    ELSE IF Len(input_string) <= chunk_size THEN <<input_string>>
    ELSE <<SubSeq(input_string, 1, chunk_size)>>
            \o chunk_string(SubSeq(input_string, chunk_size + 1, Len(input_string)),
                            chunk_size)

\* Mutant: only the first chunk of the diff is sent.
FullInput_FirstChunk(review_prompt, ctx, diff) ==
    review_prompt \o <<"\n\nProject Context:\n">> \o ctx
                  \o <<"\n\nPull Request Changes:\n">>
                  \o (IF diff = <<>> THEN diff
                      ELSE chunk_string(diff, opts.diff_chunk_size)[1])

\* full_input of line 136
FullInput(review_prompt, ctx, diff) ==
    review_prompt \o <<"\n\nProject Context:\n">> \o ctx
                  \o <<"\n\nPull Request Changes:\n">> \o diff

\* What get_review hands to GenerativeModel(...) and to generate_content(...).
GenerateRequest(ctx, diff, extra_prompt, model, temperature, max_tokens, top_p, frequency_penalty, presence_penalty) ==
    LET config == GenerationConfig(temperature, max_tokens, top_p,
                                   frequency_penalty, presence_penalty)
    IN  [ model_name |-> model,
          model_generation_config |-> config,
          model_safety_settings |-> SafetySettings,
          input |-> FullInput(get_review_prompt(extra_prompt), ctx, diff),
          generation_config |-> config,
          safety_settings |-> SafetySettings ]

\* Mutant: one generate_content call per chunk of the diff.
GenerateCalls_PerChunk(diff, diff_chunk_size) == Len(chunk_string(diff, diff_chunk_size))

\* The generate_content calls of one get_review: the single call of line 138,
\* whatever the diff and --diff-chunk-size.
GenerateCalls(diff, diff_chunk_size) == 1

\* Mutant: the exception is caught and its text is published as the review.
OnGenerateError_Swallow ==
    [pc |-> "publish", review |-> Some([type |-> "str", text |-> <<"error">>])]

\* Where an exception of generate_content leaves main: nothing catches it.
OnGenerateError == [pc |-> "failed", review |-> None]

\* What generate_content may return: the client's response object, or, from a
\* client stubbed to do so, a plain str.
ReviewTexts == { <<"LGTM">>, <<"Use", " ", "\"", "x", "\"", "\n", "here">> }
ReviewResults ==
    { [type |-> t, text |-> x] : t \in {"GenerateContentResponse", "str"}, x \in ReviewTexts }

\* get_review(...), called by main with the project content: builds the request,
\* issues the one generate_content call, and returns its result or raises.
GetReview ==
    /\ pc = "review"
    /\ genRequest' = Some(GenerateRequest(context[1], opts.diff, opts.extra_prompt,
                            opts.model, opts.temperature, opts.max_tokens, opts.top_p,
                            opts.frequency_penalty, opts.presence_penalty))
    /\ nGenerate' = nGenerate + GenerateCalls(opts.diff, opts.diff_chunk_size)
    /\ \E raised \in BOOLEAN :
          IF raised
          THEN /\ pc' = OnGenerateError.pc
               /\ error' = Raise("GoogleAPIError", <<"generate_content failed">>)
               /\ review' = OnGenerateError.review
          ELSE /\ \E r \in ReviewResults : review' = Some(r)
               /\ pc' = "publish"
               /\ UNCHANGED error
    /\ UNCHANGED <<env, opts, tree, scanOrder, exclude_dirs, caller, walk,
                   project_content, context, configured, published, post,
                   response, opened, nPost, prev>>

(***************************************************************************)
(* create_a_comment_to_pull_request                                        *)
(***************************************************************************)
\* json.dumps of a str: quoted, with the quote and the newline escaped.
JsonEscape(t) == IF t = "\n" THEN "\\n" ELSE IF t = "\"" THEN "\\\"" ELSE t
JsonString(x) == <<"\"">> \o [i \in 1..Len(x) |-> JsonEscape(x[i])] \o <<"\"">>

\* Whether json.dumps can encode the value: a str, not a response object.
JsonSerializable(v) == v.type = "str"

\* json.dumps(data) of line 94, for a body that is a str
JsonDumps(data) ==
    <<"{\"body\": ">> \o JsonString(data.body.text)
        \o <<", \"commit_id\": ">> \o JsonString(data.commit_id)
        \o <<", \"event\": ">> \o JsonString(<<data.event>>) \o <<"}">>

\* headers, data and url of lines 84-93
CommentHeaders(github_token) ==
    [ Accept |-> "application/vnd.github.v3.patch",
      authorization |-> <<"Bearer ">> \o github_token ]
CommentData(git_commit_hash, body) ==
    [ body |-> body, commit_id |-> git_commit_hash, event |-> "COMMENT" ]
CommentUrl(github_repository, pull_request_number) ==
    <<"https://api.github.com/repos/">> \o github_repository \o <<"/pulls/">>
        \o IntToStr(pull_request_number) \o <<"/reviews">>

\* The HTTP statuses the reviews endpoint may answer with.
HttpStatuses == { 200, 401, 404, 422, 500 }

\* Mutant: the status is checked, as response.raise_for_status() would.
AfterResponse_RaiseForStatus(status) ==
    IF status \in 200..299 THEN [pc |-> "done", error |-> [type |-> "", msg |-> <<>>]]
    ELSE [pc |-> "failed", error |-> [type |-> "HTTPError", msg |-> <<"bad status">>]]

\* Where a response of requests.post leaves main: the publisher returns it
\* (line 95) and main drops it (line 214), whatever its status.
AfterResponse(status) == [pc |-> "done", error |-> NoError]

\* Lines 214-220 of main with the body of create_a_comment_to_pull_request:
\* the arguments are evaluated (int() may raise), the publisher is called,
\* json.dumps encodes the data (it may raise), and requests.post is issued.
Publish ==
    /\ pc = "publish"
    /\ LET number == ParseInt(Getenv("GITHUB_PULL_REQUEST_NUMBER")[1])
           token  == Getenv("GITHUB_TOKEN")[1]
           repo   == Getenv("GITHUB_REPOSITORY")[1]
           hash   == Getenv("GIT_COMMIT_HASH")[1]
           body   == review[1]
           data   == CommentData(hash, body)
       IN  IF number = None
           THEN /\ pc' = "failed"
                /\ error' = Raise("ValueError", <<"invalid literal for int()">>)
                /\ UNCHANGED <<published, post, response, nPost>>
           ELSE /\ published' = Some([ github_token |-> token, github_repository |-> repo,
                                       pull_request_number |-> number[1],
                                       git_commit_hash |-> hash, body |-> body ])
                /\ IF ~JsonSerializable(body)
                   THEN /\ pc' = "failed"
                        /\ error' = Raise("TypeError", <<"not JSON serializable">>)
                        /\ UNCHANGED <<post, response, nPost>>
                   ELSE /\ post' = Some([ url |-> CommentUrl(repo, number[1]),
                                          headers |-> CommentHeaders(token),
                                          data |-> JsonDumps(data) ])
                        /\ nPost' = nPost + 1
                        /\ \E answered \in BOOLEAN :
                              IF answered
                              THEN \E st \in HttpStatuses :
                                      /\ response' = Some(st)
                                      /\ pc' = AfterResponse(st).pc
                                      /\ error' = AfterResponse(st).error
                              ELSE /\ pc' = "failed"
                                   /\ error' = Raise("ConnectionError", <<"no response">>)
                                   /\ UNCHANGED response
    /\ UNCHANGED <<env, opts, tree, scanOrder, exclude_dirs, caller, walk,
                   project_content, context, configured, genRequest, review,
                   opened, nGenerate, prev>>

(***************************************************************************)
(* The same command run a second time, with other values of the options    *)
(* --frequency-penalty, --presence-penalty and --diff-chunk-size.          *)
(***************************************************************************)
Issued == [ genRequest |-> genRequest, review |-> review, post |-> post,
            response |-> response, error |-> error, pc |-> pc ]

Rerun ==
    /\ pc \in {"done", "failed"}
    /\ prev = None
    /\ prev' = Some(Issued)
    /\ \E fp \in Penalties, pp \in Penalties, cs \in ChunkSizes :
          /\ opts' = [opts EXCEPT !.frequency_penalty = fp, !.presence_penalty = pp,
                                  !.diff_chunk_size = cs]
          /\ opts' # opts
    /\ pc' = "start"
    /\ error' = NoError
    /\ walk' = <<>>
    /\ project_content' = <<>>
    /\ context' = None
    /\ configured' = None
    /\ genRequest' = None
    /\ review' = None
    /\ published' = None
    /\ post' = None
    /\ response' = None
    /\ opened' = {}
    /\ nGenerate' = 0
    /\ nPost' = 0
    /\ UNCHANGED <<env, tree, scanOrder, exclude_dirs, caller>>

(***************************************************************************)
(* Specifications.                                                         *)
(***************************************************************************)
\* The state at the entry of main.
AtEntry ==
    /\ caller = "main"
    /\ exclude_dirs = DefaultExcludeDirs
    /\ pc = "start"
    /\ error = NoError
    /\ walk = <<>>
    /\ project_content = <<>>
    /\ context = None
    /\ configured = None
    /\ genRequest = None
    /\ review = None
    /\ published = None
    /\ post = None
    /\ response = None
    /\ opened = {}
    /\ nGenerate = 0
    /\ nPost = 0
    /\ prev = None

InRoot(name) == [dir |-> <<>>, name |-> name]
\* The working trees of the runs of main: empty, the single file a.py, a tree
\* with a file of another extension and an excluded directory, and a tree
\* with a file that does not decode.
MainTrees ==
    { {}, { InRoot(F_a_py) },
      { InRoot(F_a_py), InRoot(F_b_bin), [dir |-> <<D_github>>, name |-> F_a_py] },
      { InRoot(F_bad_txt) } }

\* One run of main, for every environment.
Init ==
    /\ env \in Environments
    /\ \E d \in Diffs, l \in {"INFO", "debug"}, cs \in ChunkSizes :
          opts = [DefaultOptions(d) EXCEPT !.log_level = l, !.diff_chunk_size = cs]
    /\ tree \in MainTrees
    /\ scanOrder = "fwd"
    /\ AtEntry

Next ==
    \/ SetLogLevel
    \/ CheckEnv
    \/ Configure
    \/ WalkDir
    \/ ReadReturn
    \/ GetReview
    \/ Publish

Spec == Init /\ [][Next]_vars

\* read_project_files called on its own, for every tree and several
\* exclude_dirs.
ExcludeDirSets == { DefaultExcludeDirs, { D_src }, {} }

InitReader ==
    /\ env = [n \in EnvVarNames |-> None]
    /\ opts = DefaultOptions(<<>>)
    /\ tree \in Trees
    /\ scanOrder \in {"fwd", "rev"}
    /\ exclude_dirs \in ExcludeDirSets
    /\ caller = "direct"
    /\ pc = "walk"
    /\ error = NoError
    /\ walk = << <<>> >>
    /\ project_content = <<>>
    /\ context = None
    /\ configured = None
    /\ genRequest = None
    /\ review = None
    /\ published = None
    /\ post = None
    /\ response = None
    /\ opened = {}
    /\ nGenerate = 0
    /\ nPost = 0
    /\ prev = None

NextReader == WalkDir \/ ReadReturn

SpecReader == InitReader /\ [][NextReader]_vars

\* Runs of main over the command line options, each followed by a second run.
FullEnvironment ==
    [n \in EnvVarNames |->
        CHOOSE v \in EnvValues(n) : v # None /\ v # Some(<<>>) /\
            (n = "GITHUB_PULL_REQUEST_NUMBER" => v = Some(<<"0", "0", "7">>))]

AllOptions ==
    [ diff : Diffs, diff_chunk_size : ChunkSizes,
      model : {"gemini-1.5-flash", "gemini-1.5-pro"},
      extra_prompt : ExtraPrompts, temperature : {"0.1", "0.9"},
      max_tokens : {8192, 256}, top_p : {"1.0", "0.5"},
      frequency_penalty : Penalties, presence_penalty : Penalties,
      log_level : {"INFO"} ]

InitOptions ==
    /\ env = FullEnvironment
    /\ opts \in AllOptions
    /\ tree \in MainTrees
    /\ scanOrder = "fwd"
    /\ AtEntry

NextOptions == Next \/ Rerun

SpecOptions == InitOptions /\ [][NextOptions]_vars

(***************************************************************************)
(* Properties.                                                             *)
(***************************************************************************)
Unset(n) == env[n] = None
SomeUnset == \E n \in EnvVarNames : Unset(n)
AllSet == \A n \in EnvVarNames : ~Unset(n)
Ended == pc \in {"done", "failed"}

\* The error check_required_env_vars is to raise: it names the first variable
\* of the list that is unset.
NamesFirstUnset(e) ==
    \E i \in 1..Len(RequiredEnvVars) :
       /\ Unset(RequiredEnvVars[i])
       /\ \A j \in 1..(i - 1) : ~Unset(RequiredEnvVars[j])
       /\ e.type = "ValueError"
       /\ e.msg = <<RequiredEnvVars[i], " is not set">>

\* No model client configuration, generate call, HTTP POST or file read so far.
NoIO ==
    /\ configured = None
    /\ genRequest = None /\ nGenerate = 0
    /\ post = None /\ nPost = 0
    /\ opened = {} /\ project_content = <<>> /\ context = None

\* C1 as stated: in every run with a required variable unset, the run ends
\* with the error that names the first unset variable, and does no I/O.
C1_AnyRunNamesFirstUnset ==
    SomeUnset => /\ NoIO
                 /\ pc # "done"
                 /\ (pc = "failed" => NamesFirstUnset(error))

\* C1, amended: in every run with a required variable unset there is no
\* network call and no file read and the run cannot succeed; it ends with
\* the error naming the first unset variable when --log-level names a level
\* the logger knows, and with the logger's error otherwise.
C1_UnsetVariableEndsRun ==
    SomeUnset =>
        /\ NoIO
        /\ pc \in {"start", "check_env", "failed"}
        /\ (pc = "failed" =>
              IF opts.log_level \in LoggerLevels
              THEN NamesFirstUnset(error)
              ELSE error = Raise("ValueError", <<"Level does not exist">>))

\* Two variables are unset and the run ended naming the first of them.
C1_Witness ==
    /\ pc = "failed"
    /\ ~Unset("GEMINI_API_KEY")
    /\ Unset("GITHUB_TOKEN")
    /\ Unset("GIT_COMMIT_HASH")
    /\ error.msg = <<"GITHUB_TOKEN", " is not set">>

NetworkCallMade == nGenerate > 0 \/ genRequest # None \/ nPost > 0 \/ post # None

\* C2 as stated: whenever the generate call or the HTTP POST is reached, all
\* five required values are non-empty strings.
C2_NetworkCallNeedsNonEmpty ==
    NetworkCallMade => \A n \in EnvVarNames : env[n] # None /\ env[n] # Some(<<>>)

\* C2, amended: whenever the generate call or the HTTP POST is reached, all
\* five required values are set (a value set to the empty string passes);
\* with a value unset the run never gets past the validator.
C2_NetworkCallNeedsSet ==
    /\ NetworkCallMade => AllSet
    /\ SomeUnset => pc \in {"start", "check_env", "failed"}

\* The POST was issued although the token is the empty string.
C2_Witness ==
    /\ nPost = 1
    /\ env["GITHUB_TOKEN"] = Some(<<>>)
    /\ env["GEMINI_API_KEY"] = Some(<<>>)

\* The text form of a review result.
TextOf(r) == [type |-> "str", text |-> r.text]

\* C3: with the environment fully set (and the pull request number a
\* decimal number) and a generate call that succeeded, the run ends with the
\* publisher invoked with the text of the model's result as body, the commit
\* hash as commit_id and event COMMENT, and the POST issued to the reviews
\* URL of the repository and pull request.
C3_PublishesReviewText ==
    (/\ AllSet
     /\ \A n \in EnvVarNames : env[n] # Some(<<>>)
     /\ ParseInt(env["GITHUB_PULL_REQUEST_NUMBER"][1]) # None
     /\ review # None
     /\ Ended)
    => /\ published # None
       /\ published[1].body = TextOf(review[1])
       /\ published[1].git_commit_hash = env["GIT_COMMIT_HASH"][1]
       /\ post # None
       /\ post[1].url = <<"https://api.github.com/repos/">>
                            \o env["GITHUB_REPOSITORY"][1] \o <<"/pulls/">>
                            \o IntToStr(published[1].pull_request_number)
                            \o <<"/reviews">>
       /\ post[1].data = <<"{\"body\": ">> \o JsonString(review[1].text)
                            \o <<", \"commit_id\": ">>
                            \o JsonString(env["GIT_COMMIT_HASH"][1])
                            \o <<", \"event\": ", "\"", "COMMENT", "\"", "}">>

\* A step before the publisher failed: the validator, the project read or
\* the generate call.
EarlierStepFailed ==
    \/ error.type = "ValueError" /\ Len(error.msg) = 2 /\ error.msg[2] = " is not set"
    \/ error.type = "UnicodeDecodeError"
    \/ error.type = "GoogleAPIError"

\* C4: when the validator, the project read or the generate call failed, the
\* run is in its failed state and the publisher was not invoked nor a POST
\* issued; and a POST is issued only in a run where all three succeeded.
C4_NoCommentAfterFailure ==
    /\ EarlierStepFailed =>
          /\ pc = "failed"
          /\ published = None /\ post = None /\ nPost = 0 /\ response = None
    /\ (published # None \/ post # None) =>
          /\ AllSet
          /\ context # None
          /\ review # None /\ nGenerate = 1
          /\ ~EarlierStepFailed

\* The generate call raised and the run ended without a comment.
C4_Witness ==
    /\ pc = "failed"
    /\ error.type = "GoogleAPIError"
    /\ genRequest # None
    /\ post = None

\* C5: the validator, the content reader, the review requester and the
\* publisher run in that order, each after the one before it completed
\* without an error; no run issues more than one generate call or more than
\* one POST, and a run that ended successfully issued exactly one of each.
C5_StrictSequence ==
    /\ nGenerate <= 1 /\ nPost <= 1
    /\ pc = "done" => nGenerate = 1 /\ nPost = 1 /\ error = NoError
    /\ (walk # <<>> \/ opened # {} \/ project_content # <<>> \/ context # None)
          => AllSet /\ configured # None
    /\ pc = "walk" => error = NoError /\ genRequest = None /\ published = None
    /\ genRequest # None => context # None /\ walk = <<>> /\ nGenerate = 1
    /\ pc = "review" => error = NoError /\ context # None /\ genRequest = None
    /\ published # None => review # None /\ genRequest # None
    /\ pc = "publish" => error = NoError /\ review # None /\ published = None
    /\ post # None => published # None /\ nPost = 1

\* A run that ended successfully.
C5_Witness ==
    /\ pc = "done"
    /\ nGenerate = 1 /\ nPost = 1
    /\ Len(project_content) = 1
    /\ Cardinality(tree) = 3

\* C6: once the POST got a response the run has ended successfully, with no
\* error and exactly one POST, whatever the status.
C6_AnyStatusSucceeds ==
    response # None => pc = "done" /\ error = NoError /\ nPost = 1

\* The reviews endpoint answered 500 and the run ended successfully.
C6_Witness ==
    /\ response = Some(500)
    /\ pc = "done"
    /\ nPost = 1

NotANumber(x) == x = <<>> \/ \E i \in 1..Len(x) : ~IsDigit(x[i])

Malformed == << [path |-> <<"?">>, content |-> <<"?">>] >>
First(x, from, t) ==
    IF \E i \in from..Len(x) : x[i] = t
    THEN CHOOSE i \in from..Len(x) : x[i] = t /\ \A j \in from..(i - 1) : x[j] # t
    ELSE 0
RECURSIVE ParseSections(_)
ParseSections(x) ==
    IF x = <<>> THEN <<>>
    ELSE LET p == First(x, 2, "\n\n ")
             q == IF p = 0 THEN 0 ELSE First(x, p + 2, Fence)
         IN  IF \/ x[1] # "File: " \/ p = 0 \/ q = 0
                \/ x[p + 1] # Fence
                \/ Len(x) < q + 1 \/ x[q + 1] # "\n\n"
             THEN Malformed
             ELSE LET sec  == [path |-> SubSeq(x, 2, p - 1),
                               content |-> SubSeq(x, p + 2, q - 1)]
                      rest == SubSeq(x, q + 2, Len(x))
                  IN  IF rest = <<>> THEN <<sec>>
                      ELSE IF Head(rest) # "\n" \/ Len(rest) = 1 THEN Malformed
                      ELSE <<sec>> \o ParseSections(Tail(rest))

\* The files the blob is to have a section for: the name ends with an
\* allow-listed extension and no directory above the file is excluded.
Qualifies(f) ==
    /\ \E e \in AllowedExtensions :
          /\ Len(e) <= Len(f.name)
          /\ \A i \in 1..Len(e) : f.name[Len(f.name) - Len(e) + i] = e[i]
    /\ \A i \in 1..Len(f.dir) : f.dir[i] \notin exclude_dirs
RelativePath(f) == Join(<<"/">>, <<<<".">>>> \o f.dir \o <<f.name>>)

\* C7: what read_project_files returns has exactly one section per file
\* whose name ends with an allow-listed extension and that lies under no
\* excluded directory, headed by the file's relative path and holding its
\* content, and nothing else; it raises only for such a file that does not
\* decode.
C7_SectionsAreQualifyingFiles ==
    /\ pc \in {"returned", "review"} =>
          LET secs == ParseSections(context[1])
              want == { f \in tree : Qualifies(f) }
          IN  /\ Len(secs) = Cardinality(want)
              /\ { secs[i] : i \in 1..Len(secs) } =
                    { [path |-> RelativePath(f), content |-> ReadText(f)[1]] : f \in want }
    /\ (pc = "failed" /\ error.type = "UnicodeDecodeError") =>
          \E f \in tree : Qualifies(f) /\ ReadText(f) = None

\* A tree with a file of an allowed extension in '.', one under an excluded
\* directory nested in another directory, read into a blob of one section.
C7_Witness ==
    /\ pc = "returned"
    /\ exclude_dirs = DefaultExcludeDirs
    /\ tree = { InRoot(F_a_py), [dir |-> <<D_src, D_github>>, name |-> F_a_py] }
    /\ Len(ParseSections(context[1])) = 1

\* C8: a second run of the same command that differs only in
\* --frequency-penalty, --presence-penalty or --diff-chunk-size issues the
\* generation request the first run issued and, given the same model
\* response, the HTTP POST the first run issued.
C8_DeadOptionsChangeNothing ==
    prev # None =>
        /\ genRequest # None => genRequest = prev[1].genRequest
        /\ (published # None /\ review = prev[1].review) => post = prev[1].post

\* Both runs issued the request and the POST.
C8_Witness ==
    /\ prev # None
    /\ genRequest # None
    /\ post # None
    /\ prev[1].post = post
    /\ opts.frequency_penalty = "0.5"

\* C9: the input of the generate call is the review prompt, which holds the
\* five criteria lines and then the extra prompt verbatim, then the
\* "Project Context:" label and the whole project blob, then the
\* "Pull Request Changes:" label and the whole diff, and nothing more.
C9_InputIsPromptContextDiff ==
    genRequest # None =>
        LET x    == genRequest[1].input
            blob == context[1]
            nd   == Len(opts.diff)
            nb   == Len(blob)
            np   == Len(x) - nd - nb - 2
            prompt == SubSeq(x, 1, np)
            ne   == Len(opts.extra_prompt)
        IN  /\ np >= 0
            /\ SubSeq(x, Len(x) - nd + 1, Len(x)) = opts.diff
            /\ x[Len(x) - nd] = "\n\nPull Request Changes:\n"
            /\ SubSeq(x, np + 2, np + 1 + nb) = blob
            /\ x[np + 1] = "\n\nProject Context:\n"
            /\ SubSeq(prompt, 2, 6) = ReviewCriteria
            /\ SubSeq(prompt, 8, 7 + ne) = opts.extra_prompt
            /\ Len(prompt) = 8 + ne
            /\ nGenerate = 1

\* sub occurs in s as a contiguous run of tokens
Contains(s, sub) ==
    \E i \in 1..(Len(s) - Len(sub) + 1) : SubSeq(s, i, i + Len(sub) - 1) = sub

\* A request with a non-empty extra prompt, a blob of one section and a diff
\* of several tokens.
C9_Witness ==
    /\ genRequest # None
    /\ opts.extra_prompt # <<>>
    /\ Len(opts.diff) > 1
    /\ Len(project_content) = 1
    /\ Contains(genRequest[1].input, opts.extra_prompt)

====
